---- MODULE Spec2Model ----
(***************************************************************************)
(* Model of the email sender (src/main.py): the request handler            *)
(* EmailsResource.on_post, the fallback dispatcher send, and the two       *)
(* breaker-guarded provider functions send_with_mailgun and                *)
(* send_with_mandrill.  The breakers are pybreaker.CircuitBreaker objects  *)
(* built with fail_max=5 and reset_timeout=60; their behaviour is that of  *)
(* the pybreaker library: CircuitBreaker.call runs the state's call under  *)
(* the breaker's re-entrant lock, a failure increments the failure counter *)
(* and opens the breaker at fail_max (closed) or at once (half-open), a    *)
(* success resets the counter and closes a half-open breaker, and an open  *)
(* breaker rejects calls until reset_timeout has elapsed since it opened.  *)
(***************************************************************************)
EXTENDS Integers, Sequences, FiniteSets, TLC

(***************************************************************************)
(* Bounds of the model.                                                    *)
(***************************************************************************)
NumThreads == 2
MaxTime == 120
TickStep == 60

(***************************************************************************)
(* Program constants.                                                      *)
(***************************************************************************)
fail_max == 5
reset_timeout == 60

\* Outcomes of on_post: the status it sets or the HTTP error it raises, and
\* Unhandled for an exception that leaves on_post (a generic server error).
HTTP_204 == "204 No Content"
HTTP_400 == "400 Bad Request"
HTTP_404 == "404 Not Found"
Unhandled == "500 Internal Server Error"

\* Python's None, and the time of a breaker that holds no open state.
None == "None"
NoTime == -1

Threads == 1..NumThreads
NoThread == 0

Providers == {"mailgun", "mandrill"}

\* The keyword arguments of send in the order on_post evaluates them.
RequiredFields == <<"sender", "receiver", "subject", "text", "html">>
FieldSet == {RequiredFields[i] : i \in 1..Len(RequiredFields)}

\* Values of the `key` field a body may carry (None: the field is absent).
Keys == {None, "abc", "xyz"}
\* Values of the optional `fallback` field (None: the field is absent).
Fallbacks == {None, "true", "false"}

\* Request bodies (req.context['doc']): the key, the required fields that are
\* present, and the fallback flag.
Docs == [key : Keys, present : SUBSET FieldSet, fallback : Fallbacks]
NoDoc == [key |-> None, present |-> {}, fallback |-> None]
\* The authorised complete bodies of the tests' request_body fixture.
CompleteDocs == {d \in Docs : d.key = "abc" /\ d.present = FieldSet}
\* Of these, the body without the fallback flag and the one that sets it.
ConcDocs == {d \in CompleteDocs : d.fallback # "false"}

\* Environment variables the process reads, and the secret API_KEY holds.
EnvVars == {"API_KEY", "MAILGUN_DOMAIN", "MAILGUN_API_KEY", "MANDRILL_API_KEY"}
EnvSecret == "abc"
\* The environments the process may be started in: every variable set, or
\* one of them left unset.
Environs == {EnvVars} \cup {EnvVars \ {v} : v \in EnvVars}
\* The api_key argument EmailsResource may be constructed with.
CtorKeys == {None, "abc"}

VARIABLES
    api_key,    \* EmailsResource.api_key
    environ,    \* names defined in os.environ
    now,        \* datetime.utcnow(), in seconds
    breaker,    \* provider -> [state, fail_counter, opened_at]
    lock,       \* provider -> thread holding the breaker's lock, or NoThread
    pc,         \* thread -> position in on_post / send
    doc,        \* thread -> body of the request being handled
    resp,       \* thread -> outcome of the request ([status, detail, exc])
    pending,    \* thread -> what its provider function ended with, and the
                \* failure counter the breaker read to count it
    calls,      \* thread -> provider -> what this request did at the provider
    streak,     \* provider -> failed executions since its last success
    last_failure \* provider -> time of its last failed execution

vars == <<api_key, environ, now, breaker, lock, pc, doc, resp, pending, calls,
          streak, last_failure>>

NoExc == [type |-> None, arg |-> None]
NoResp == [status |-> None, detail |-> None, exc |-> None]
NoPending == [exc |-> NoExc, counter |-> 0]
NoCalls == [p \in Providers |->
              [invoked |-> 0, executed |-> 0, network |-> 0, accepted |-> 0]]

(***************************************************************************)
(* pybreaker.CircuitBreaker, as constructed at main.py:42-43.              *)
(***************************************************************************)
NewBreaker == [state |-> "closed", fail_counter |-> 0, opened_at |-> NoTime]

\* CircuitBreaker.open: a new CircuitOpenState, opened at the current time.
open(b, t) == [b EXCEPT !.state = "open", !.opened_at = t]

\* CircuitBreaker.half_open.
half_open(b) == [b EXCEPT !.state = "half-open"]

\* CircuitBreaker.close: a new CircuitClosedState; the failure counter is reset.
close(b) == [b EXCEPT !.state = "closed", !.fail_counter = 0, !.opened_at = NoTime]

\* Mutant of still_open: an open breaker rejects calls whatever the time.
still_open_forever(b, t) == b.state = "open"

\* CircuitOpenState.before_call: the call is rejected while the timeout has
\* not elapsed since the breaker opened.
still_open(b, t) == b.state = "open" /\ t < b.opened_at + reset_timeout

\* The breaker on entry of a call that is let through: an open breaker whose
\* timeout has elapsed becomes half-open.
before_call(b, t) == IF b.state = "open" THEN half_open(b) ELSE b

\* Mutant of trips: the closed breaker trips one failure too late.
trips_late(b) ==
    \/ b.state = "half-open"
    \/ b.state = "closed" /\ b.fail_counter + 1 > fail_max

\* Whether a failure recorded now trips the breaker (on_failure of the state).
trips(b) ==
    \/ b.state = "half-open"
    \/ b.state = "closed" /\ b.fail_counter + 1 >= fail_max

\* CircuitBreakerState._handle_error: count the failure, then on_failure.
handle_error(b, t) ==
    LET c == [b EXCEPT !.fail_counter = @ + 1]
    IN  IF trips(b) THEN open(c, t) ELSE c

\* Mutant of handle_success: the failure counter is not reset in the closed
\* state.
handle_success_keeps_counter(b) ==
    IF b.state = "half-open" THEN close(b) ELSE b

\* CircuitBreakerState._handle_success: reset the counter, then on_success.
handle_success(b) ==
    LET c == [b EXCEPT !.fail_counter = 0]
    IN  IF c.state = "half-open" THEN close(c) ELSE c

\* The exception that leaves the breaker when the wrapped function raised e:
\* CircuitBreakerError when the failure tripped the breaker, else e itself.
raised(b, e) ==
    IF trips(b) THEN [type |-> "CircuitBreakerError", arg |-> None] ELSE e

(***************************************************************************)
(* EmailsResource.__init__ and the gates of on_post.                       *)
(***************************************************************************)
\* os.getenv(name): the secret for API_KEY when it is set, else None.
getenv(env, name) == IF name \in env THEN EnvSecret ELSE None

\* self.api_key = api_key or os.getenv('API_KEY')
configured_key(arg, env) == IF arg # None THEN arg ELSE getenv(env, "API_KEY")

\* req.context['doc'].get('key') != self.api_key
key_mismatch(d, secret) == d.key # secret

\* Mutant of first_missing: the last absent field is named.
first_missing_last(d) ==
    LET missing == {i \in 1..Len(RequiredFields) : RequiredFields[i] \notin d.present}
    IN  IF missing = {} THEN None
        ELSE RequiredFields[CHOOSE i \in missing : \A j \in missing : i >= j]

\* The first required field whose lookup raises KeyError, or None.
first_missing(d) ==
    LET missing == {i \in 1..Len(RequiredFields) : RequiredFields[i] \notin d.present}
    IN  IF missing = {} THEN None
        ELSE RequiredFields[CHOOSE i \in missing : \A j \in missing : i <= j]

\* Mutant of raise_error: the fallback flag is not passed on.
raise_error_ignored(d) == FALSE

\* raise_error=fallback: the truth value of req.context['doc'].get('fallback').
raise_error(d) == d.fallback = "true"

(***************************************************************************)
(* The wrapped provider functions (the bodies under the decorators).       *)
(***************************************************************************)
\* What the network may answer to one provider request.
Outcomes == {"ok", "error"}

\* Mutant of mailgun_body: the forced failure is raised after the request
\* has been posted.
mailgun_body_contacts_first(d, env, o) ==
    IF "MAILGUN_DOMAIN" \notin env
    THEN [exc |-> [type |-> "KeyError", arg |-> "MAILGUN_DOMAIN"], network |-> 0]
    ELSE IF "MAILGUN_API_KEY" \notin env
    THEN [exc |-> [type |-> "KeyError", arg |-> "MAILGUN_API_KEY"], network |-> 0]
    ELSE IF raise_error(d)
    THEN [exc |-> [type |-> "RuntimeError", arg |-> None], network |-> 1]
    ELSE IF o = "ok"
    THEN [exc |-> NoExc, network |-> 1]
    ELSE [exc |-> [type |-> "HTTPError", arg |-> None], network |-> 1]

\* Body of send_with_mailgun: [exc, network] for body d and network answer o.
\* exc is NoExc when the function returns.
mailgun_body(d, env, o) ==
    IF raise_error(d)
    THEN [exc |-> [type |-> "RuntimeError", arg |-> None], network |-> 0]
    ELSE IF "MAILGUN_DOMAIN" \notin env
    THEN [exc |-> [type |-> "KeyError", arg |-> "MAILGUN_DOMAIN"], network |-> 0]
    ELSE IF "MAILGUN_API_KEY" \notin env
    THEN [exc |-> [type |-> "KeyError", arg |-> "MAILGUN_API_KEY"], network |-> 0]
    ELSE IF o = "ok"
    THEN [exc |-> NoExc, network |-> 1]
    ELSE [exc |-> [type |-> "HTTPError", arg |-> None], network |-> 1]

\* Body of send_with_mandrill.
mandrill_body(d, env, o) ==
    IF "MANDRILL_API_KEY" \notin env
    THEN [exc |-> [type |-> "KeyError", arg |-> "MANDRILL_API_KEY"], network |-> 0]
    ELSE IF o = "ok"
    THEN [exc |-> NoExc, network |-> 1]
    ELSE [exc |-> [type |-> "mandrill.Error", arg |-> None], network |-> 1]

(***************************************************************************)
(* How on_post answers what send returned or raised.                       *)
(***************************************************************************)
\* Mutant of on_post_outcome: other exceptions are swallowed.
on_post_outcome_swallow(e) ==
    IF e # NoExc /\ e.type = "KeyError"
    THEN [status |-> HTTP_400, detail |-> e.arg, exc |-> e.type]
    ELSE [status |-> HTTP_204, detail |-> None, exc |-> None]

\* except KeyError -> HTTPBadRequest naming the key; any other exception is
\* logged and re-raised; no exception -> resp.status = HTTP_204.
on_post_outcome(e) ==
    IF e = NoExc THEN [status |-> HTTP_204, detail |-> None, exc |-> None]
    ELSE IF e.type = "KeyError"
    THEN [status |-> HTTP_400, detail |-> e.arg, exc |-> e.type]
    ELSE [status |-> Unhandled, detail |-> None, exc |-> e.type]

(***************************************************************************)
(* Initial state: the process has started, both breakers are closed.       *)
(***************************************************************************)
Init ==
    /\ environ \in Environs
    /\ \E arg \in CtorKeys : api_key = configured_key(arg, environ)
    /\ now = 0
    /\ breaker = [p \in Providers |-> NewBreaker]
    /\ lock = [p \in Providers |-> NoThread]
    /\ pc = [t \in Threads |-> "idle"]
    /\ doc = [t \in Threads |-> NoDoc]
    /\ resp = [t \in Threads |-> NoResp]
    /\ pending = [t \in Threads |-> NoPending]
    /\ calls = [t \in Threads |-> NoCalls]
    /\ streak = [p \in Providers |-> 0]
    /\ last_failure = [p \in Providers |-> NoTime]

(***************************************************************************)
(* Actions.                                                                *)
(***************************************************************************)
\* Mutant of on_post: the dispatcher is entered before the required fields
\* are looked up.
on_post_dispatches_unvalidated(t, d) ==
    /\ pc[t] = "idle"
    /\ doc' = [doc EXCEPT ![t] = d]
    /\ calls' = [calls EXCEPT ![t] = NoCalls]
    /\ IF key_mismatch(d, api_key)
       THEN /\ resp' = [resp EXCEPT ![t] =
                          [status |-> HTTP_404, detail |-> None, exc |-> None]]
            /\ pc' = [pc EXCEPT ![t] = "responded"]
       ELSE /\ resp' = [resp EXCEPT ![t] = NoResp]
            /\ pc' = [pc EXCEPT ![t] = "mailgun_call"]
    /\ UNCHANGED <<api_key, environ, now, breaker, lock, pending, streak,
                   last_failure>>

\* EmailsResource.on_post up to the call of send_with_mailgun: the auth gate,
\* then the lookups of the five required fields.
on_post(t, d) ==
    /\ pc[t] = "idle"
    /\ doc' = [doc EXCEPT ![t] = d]
    /\ calls' = [calls EXCEPT ![t] = NoCalls]
    /\ IF key_mismatch(d, api_key)
       THEN /\ resp' = [resp EXCEPT ![t] =
                          [status |-> HTTP_404, detail |-> None, exc |-> None]]
            /\ pc' = [pc EXCEPT ![t] = "responded"]
       ELSE IF first_missing(d) # None
       THEN /\ resp' = [resp EXCEPT ![t] =
                          on_post_outcome([type |-> "KeyError", arg |-> first_missing(d)])]
            /\ pc' = [pc EXCEPT ![t] = "responded"]
       ELSE /\ resp' = [resp EXCEPT ![t] = NoResp]
            /\ pc' = [pc EXCEPT ![t] = "mailgun_call"]
    /\ UNCHANGED <<api_key, environ, now, breaker, lock, pending, streak,
                   last_failure>>

\* Mutant of breaker_call: the call does not wait for the breaker's lock.
breaker_call_unlocked(t, p, rejected_pc, rejected_resp) ==
    /\ pc[t] = p \o "_call"
    /\ calls' = [calls EXCEPT ![t][p].invoked = @ + 1]
    /\ IF still_open(breaker[p], now)
       THEN /\ pc' = [pc EXCEPT ![t] = rejected_pc]
            /\ resp' = [resp EXCEPT ![t] = rejected_resp]
            /\ UNCHANGED <<breaker, lock>>
       ELSE /\ breaker' = [breaker EXCEPT ![p] = before_call(@, now)]
            /\ lock' = [lock EXCEPT ![p] = t]
            /\ pc' = [pc EXCEPT ![t] = p \o "_body"]
            /\ UNCHANGED resp
    /\ UNCHANGED <<api_key, environ, now, doc, pending, streak, last_failure>>

\* A call of a breaker-wrapped function reaches CircuitBreaker.call: it takes
\* the lock; an open breaker whose timeout has not elapsed raises
\* CircuitBreakerError (and the lock is released), otherwise the wrapped
\* function is entered with the lock held.  rejected_pc and rejected_resp
\* are where the caller goes when the call is rejected.
breaker_call(t, p, rejected_pc, rejected_resp) ==
    /\ pc[t] = p \o "_call"
    /\ lock[p] = NoThread
    /\ calls' = [calls EXCEPT ![t][p].invoked = @ + 1]
    /\ IF still_open(breaker[p], now)
       THEN /\ pc' = [pc EXCEPT ![t] = rejected_pc]
            /\ resp' = [resp EXCEPT ![t] = rejected_resp]
            /\ UNCHANGED <<breaker, lock>>
       ELSE /\ breaker' = [breaker EXCEPT ![p] = before_call(@, now)]
            /\ lock' = [lock EXCEPT ![p] = t]
            /\ pc' = [pc EXCEPT ![t] = p \o "_body"]
            /\ UNCHANGED resp
    /\ UNCHANGED <<api_key, environ, now, doc, pending, streak, last_failure>>

\* Mutant of breaker_body: the lock covers the wrapped function only, and
\* is released before the outcome is recorded.
breaker_body_releases_lock(t, p, r) ==
    /\ pc[t] = p \o "_body"
    /\ pc' = [pc EXCEPT ![t] = p \o "_exit"]
    /\ lock' = [lock EXCEPT ![p] = NoThread]
    /\ pending' = [pending EXCEPT ![t] =
                     [exc |-> r.exc, counter |-> breaker[p].fail_counter]]
    /\ calls' = [calls EXCEPT ![t][p].executed = @ + 1,
                              ![t][p].network = @ + r.network]
    /\ UNCHANGED <<api_key, environ, now, breaker, doc, resp, streak,
                   last_failure>>

\* The wrapped function runs to its end with result r ([exc, network]), in
\* the state's call; when it raised, _handle_error starts counting the
\* failure and reads the failure counter.
breaker_body(t, p, r) ==
    /\ pc[t] = p \o "_body"
    /\ pc' = [pc EXCEPT ![t] = p \o "_exit"]
    /\ pending' = [pending EXCEPT ![t] =
                     [exc |-> r.exc, counter |-> breaker[p].fail_counter]]
    /\ calls' = [calls EXCEPT ![t][p].executed = @ + 1,
                              ![t][p].network = @ + r.network]
    /\ UNCHANGED <<api_key, environ, now, breaker, lock, doc, resp, streak,
                   last_failure>>

\* Mutant of breaker_return: the two decorators share one breaker, so the
\* outcome is recorded for both providers.
breaker_return_shared(t, p) ==
    LET e == pending[t].exc
    IN  /\ pc[t] = p \o "_exit"
        /\ lock' = [lock EXCEPT ![p] = NoThread]
        /\ pending' = [pending EXCEPT ![t] = NoPending]
        /\ calls' = [calls EXCEPT ![t][p].accepted = @ + (IF e = NoExc THEN 1 ELSE 0)]
        /\ IF e = NoExc
           THEN /\ breaker' = [q \in Providers |-> handle_success(breaker[q])]
                /\ streak' = [streak EXCEPT ![p] = 0]
                /\ UNCHANGED last_failure
           ELSE /\ breaker' = [q \in Providers |-> handle_error(breaker[q], now)]
                /\ streak' = [streak EXCEPT ![p] = @ + 1]
                /\ last_failure' = [last_failure EXCEPT ![p] = now]
        /\ UNCHANGED <<api_key, environ, now, doc>>

\* The breaker records the outcome of the call of thread t: the counter is
\* written (the value read plus one, or zero), the state changes, and the
\* lock is released.  The caller sees raised(...) or the return.
breaker_return(t, p) ==
    LET e == pending[t].exc
        seen == [breaker[p] EXCEPT !.fail_counter = pending[t].counter]
    IN  /\ pc[t] = p \o "_exit"
        /\ lock' = [lock EXCEPT ![p] = NoThread]
        /\ pending' = [pending EXCEPT ![t] = NoPending]
        /\ calls' = [calls EXCEPT ![t][p].accepted = @ + (IF e = NoExc THEN 1 ELSE 0)]
        /\ IF e = NoExc
           THEN /\ breaker' = [breaker EXCEPT ![p] = handle_success(@)]
                /\ streak' = [streak EXCEPT ![p] = 0]
                /\ UNCHANGED last_failure
           ELSE /\ breaker' = [breaker EXCEPT ![p] = handle_error(seen, now)]
                /\ streak' = [streak EXCEPT ![p] = @ + 1]
                /\ last_failure' = [last_failure EXCEPT ![p] = now]
        /\ UNCHANGED <<api_key, environ, now, doc>>

\* Mutant of send_with_mailgun_call: the rejection is not caught by send.
send_with_mailgun_call_uncaught(t) ==
    breaker_call(t, "mailgun", "responded",
                 on_post_outcome([type |-> "CircuitBreakerError", arg |-> None]))

\* Mutant of send_with_mailgun_call: the forced failure is raised by the
\* caller, outside the breaker-guarded function.
send_with_mailgun_call_forces_outside(t) ==
    IF raise_error(doc[t])
    THEN /\ pc[t] = "mailgun_call"
         /\ pc' = [pc EXCEPT ![t] = "mandrill_call"]
         /\ calls' = [calls EXCEPT ![t]["mailgun"].invoked = @ + 1]
         /\ UNCHANGED <<api_key, environ, now, breaker, lock, doc, resp,
                        pending, streak, last_failure>>
    ELSE breaker_call(t, "mailgun", "mandrill_call", NoResp)

\* send: send_with_mailgun(...) is called (main.py:105).  A rejection is
\* caught by the bare except, which goes on to Mandrill.
send_with_mailgun_call(t) ==
    breaker_call(t, "mailgun", "mandrill_call", NoResp)

\* send_with_mailgun's body runs (main.py:59-68).
send_with_mailgun_body(t, o) ==
    breaker_body(t, "mailgun", mailgun_body(doc[t], environ, o))

\* Mutant of send_with_mailgun_return: send goes on to Mandrill after a
\* success too.
send_with_mailgun_return_falls_through(t) ==
    LET e == pending[t].exc
    IN  /\ breaker_return(t, "mailgun")
        /\ pc' = [pc EXCEPT ![t] = "mandrill_call"]
        /\ UNCHANGED resp

\* The call of send_with_mailgun ends.  A return ends send and on_post sets
\* 204; any exception is caught by the bare except of send.
send_with_mailgun_return(t) ==
    LET e == pending[t].exc
    IN  /\ breaker_return(t, "mailgun")
        /\ IF e = NoExc
           THEN /\ pc' = [pc EXCEPT ![t] = "responded"]
                /\ resp' = [resp EXCEPT ![t] = on_post_outcome(NoExc)]
           ELSE /\ pc' = [pc EXCEPT ![t] = "mandrill_call"]
                /\ UNCHANGED resp

\* send: send_with_mandrill(...) is called in the except branch (main.py:107).
\* A rejection leaves send and on_post as CircuitBreakerError.
send_with_mandrill_call(t) ==
    breaker_call(t, "mandrill", "responded",
                 on_post_outcome([type |-> "CircuitBreakerError", arg |-> None]))

\* send_with_mandrill's body runs (main.py:83-87).
send_with_mandrill_body(t, o) ==
    breaker_body(t, "mandrill", mandrill_body(doc[t], environ, o))

\* Mutant of send_with_mandrill_return: a failed Mandrill attempt is followed
\* by one more round through both providers.
send_with_mandrill_return_retries(t) ==
    LET e == pending[t].exc
        seen == [breaker["mandrill"] EXCEPT !.fail_counter = pending[t].counter]
    IN  /\ breaker_return(t, "mandrill")
        /\ IF e # NoExc /\ calls[t]["mailgun"].invoked < 2
           THEN /\ pc' = [pc EXCEPT ![t] = "mailgun_call"]
                /\ UNCHANGED resp
           ELSE /\ pc' = [pc EXCEPT ![t] = "responded"]
                /\ resp' = [resp EXCEPT ![t] =
                              IF e = NoExc THEN on_post_outcome(NoExc)
                              ELSE on_post_outcome(raised(seen, e))]

\* The call of send_with_mandrill ends; what it raises leaves send and
\* reaches the except clauses of on_post.
send_with_mandrill_return(t) ==
    LET e == pending[t].exc
        seen == [breaker["mandrill"] EXCEPT !.fail_counter = pending[t].counter]
    IN  /\ breaker_return(t, "mandrill")
        /\ pc' = [pc EXCEPT ![t] = "responded"]
        /\ resp' = [resp EXCEPT ![t] =
                      IF e = NoExc THEN on_post_outcome(NoExc)
                      ELSE on_post_outcome(raised(seen, e))]

\* The response has been sent; the worker thread takes the next request.
Respond(t) ==
    /\ pc[t] = "responded"
    /\ pc' = [pc EXCEPT ![t] = "idle"]
    /\ doc' = [doc EXCEPT ![t] = NoDoc]
    /\ resp' = [resp EXCEPT ![t] = NoResp]
    /\ calls' = [calls EXCEPT ![t] = NoCalls]
    /\ UNCHANGED <<api_key, environ, now, breaker, lock, pending, streak,
                   last_failure>>

\* Time passes.
Tick ==
    /\ now + TickStep <= MaxTime
    /\ now' = now + TickStep
    /\ UNCHANGED <<api_key, environ, breaker, lock, pc, doc, resp, pending,
                   calls, streak, last_failure>>

\* The server with worker threads T receiving bodies from D, Mailgun
\* answering its requests with one of M.
Serve(T, D, M) ==
    \/ \E t \in T : \E d \in D : on_post(t, d)
    \/ \E t \in T : send_with_mailgun_call(t)
    \/ \E t \in T : \E o \in M : send_with_mailgun_body(t, o)
    \/ \E t \in T : send_with_mailgun_return(t)
    \/ \E t \in T : send_with_mandrill_call(t)
    \/ \E t \in T : \E o \in Outcomes : send_with_mandrill_body(t, o)
    \/ \E t \in T : send_with_mandrill_return(t)
    \/ \E t \in T : Respond(t)
    \/ Tick

\* One worker thread, any request body.
Next == Serve({1}, Docs, Outcomes)
Spec == Init /\ [][Next]_vars

\* Concurrent worker threads of a fully configured process, authorised
\* complete request bodies.
InitConc == Init /\ environ = EnvVars
NextConc == Serve(Threads, ConcDocs, Outcomes)
SpecConc == InitConc /\ [][NextConc]_vars

\* One worker thread of a fully configured process whose Mailgun requests
\* all succeed: Mailgun fails only when a request forces it to.
NextForced == Serve({1}, CompleteDocs, {"ok"})
SpecForced == InitConc /\ [][NextForced]_vars

(***************************************************************************)
(* Properties.                                                             *)
(***************************************************************************)
\* The request of thread t passed both gates of on_post.
Dispatched(t) ==
    /\ pc[t] # "idle"
    /\ doc[t].key = api_key
    /\ doc[t].present = FieldSet

\* C1: every request whose body has no `key` field, or whose `key` differs
\* from the configured secret, is answered 404 Not Found, whatever secret the
\* resource was configured with (also when none was configured).
C1_NoKeyOrWrongKeyIsNotFound ==
    \A t \in Threads :
        (pc[t] # "idle" /\ (doc[t].key = None \/ doc[t].key # api_key))
            => (pc[t] = "responded" /\ resp[t].status = HTTP_404)

\* C2: a request with the correct key in which a required field is absent is
\* answered 400 Bad Request, and the message names the first absent field in
\* the order sender, receiver, subject, text, html.
C2_MissingFieldIsBadRequestNamingFirst ==
    \A t \in Threads :
        (pc[t] # "idle" /\ doc[t].key = api_key /\ doc[t].present # FieldSet)
            => /\ pc[t] = "responded"
               /\ resp[t].status = HTTP_400
               /\ \E i \in 1..Len(RequiredFields) :
                    /\ resp[t].detail = RequiredFields[i]
                    /\ RequiredFields[i] \notin doc[t].present
                    /\ \A j \in 1..(i - 1) : RequiredFields[j] \in doc[t].present

C2_Witness ==
    \E t \in Threads :
        /\ pc[t] = "responded"
        /\ doc[t].key = api_key
        /\ doc[t].present = {"sender", "html"}
        /\ resp[t].status = HTTP_400
        /\ resp[t].detail = "receiver"

\* C3: when the Mailgun attempt of an authorised complete request succeeds,
\* Mandrill is never invoked for that request and the response is 204.
C3_PrimarySuccessSkipsSecondary ==
    \A t \in Threads :
        (Dispatched(t) /\ calls[t]["mailgun"].accepted > 0)
            => /\ calls[t]["mandrill"].invoked = 0
               /\ pc[t] = "responded"
               /\ resp[t].status = HTTP_204

C3_Witness ==
    \E t \in Threads :
        /\ Dispatched(t)
        /\ calls[t]["mailgun"].accepted = 1
        /\ calls[t]["mailgun"].network = 1
        /\ resp[t].status = HTTP_204

\* C4: when the Mailgun attempt of an authorised complete request raises, or
\* the request carries fallback=true, Mandrill is invoked exactly once for
\* the request, and if Mandrill succeeds the response is 204.
C4_PrimaryFailureInvokesSecondaryOnce ==
    \A t \in Threads :
        (/\ Dispatched(t)
         /\ pc[t] = "responded"
         /\ (calls[t]["mailgun"].accepted = 0 \/ doc[t].fallback = "true"))
            => /\ calls[t]["mandrill"].invoked = 1
               /\ (calls[t]["mandrill"].accepted = 1 => resp[t].status = HTTP_204)

C4_Witness ==
    \E t \in Threads :
        /\ Dispatched(t)
        /\ pc[t] = "responded"
        /\ doc[t].fallback = "true"
        /\ calls[t]["mailgun"].executed = 1
        /\ calls[t]["mandrill"].accepted = 1
        /\ resp[t].status = HTTP_204

\* C5: when both providers fail for an authorised complete request, the
\* response is a server error (never 204, 400 or 404) and each provider was
\* invoked exactly once, whatever the state of the breakers.
C5_BothFailIsServerError ==
    \A t \in Threads :
        (/\ Dispatched(t)
         /\ pc[t] = "responded"
         /\ calls[t]["mailgun"].accepted = 0
         /\ calls[t]["mandrill"].accepted = 0)
            => /\ resp[t].status = Unhandled
               /\ calls[t]["mailgun"].invoked = 1
               /\ calls[t]["mandrill"].invoked = 1

\* C6: once a provider has failed fail_max times in a row, every call to it
\* made before reset_timeout has elapsed since the last failure is rejected
\* at once: the wrapped function is not entered and no network request is
\* made.
C6_OpenBreakerFailsFast ==
    [][\A t \in Threads : \A p \in Providers :
          (/\ pc[t] = p \o "_call"
           /\ pc'[t] # p \o "_call"
           /\ streak[p] >= fail_max
           /\ now < last_failure[p] + reset_timeout)
              => /\ pc'[t] # p \o "_body"
                 /\ lock'[p] = NoThread
                 /\ calls'[t][p].invoked = calls[t][p].invoked + 1
                 /\ calls'[t][p].executed = calls[t][p].executed
                 /\ calls'[t][p].network = calls[t][p].network
                 /\ breaker'[p] = breaker[p]]_vars

C6_Witness ==
    \E t \in Threads : \E p \in Providers :
        /\ streak[p] = fail_max
        /\ now < last_failure[p] + reset_timeout
        /\ calls[t][p].invoked = 1
        /\ calls[t][p].executed = 0
        /\ pc[t] # p \o "_call"

\* C7: an open breaker whose reset timeout has elapsed lets exactly one trial
\* call through (half-open): no other call enters the provider function
\* before the trial's outcome is recorded, also with concurrent requests; a
\* successful trial closes the breaker, a failed trial opens it again with a
\* fresh cooldown.
C7_HalfOpenSingleTrial ==
    [][\A p \in Providers :
          LET inside == {t \in Threads : pc[t] \in {p \o "_body", p \o "_exit"}}
              inside_next == {t \in Threads : pc'[t] \in {p \o "_body", p \o "_exit"}}
          IN  /\ breaker[p].state = "half-open" =>
                    (Cardinality(inside) = 1 /\ inside_next \subseteq inside)
              /\ (breaker[p].state = "open" /\ inside_next # inside) =>
                    /\ now >= breaker[p].opened_at + reset_timeout
                    /\ breaker'[p].state = "half-open"
                    /\ inside = {}
                    /\ Cardinality(inside_next) = 1
              /\ \A t \in inside :
                    (breaker[p].state = "half-open" /\ t \notin inside_next) =>
                        IF calls'[t][p].accepted > calls[t][p].accepted
                        THEN breaker'[p] = NewBreaker
                        ELSE /\ breaker'[p].state = "open"
                             /\ breaker'[p].opened_at = now
                             /\ still_open(breaker'[p], now)]_vars

\* A second request waits for the breaker while another request's trial call
\* is inside the provider function.
C7_Witness ==
    \E t, u \in Threads : \E p \in Providers :
        /\ t # u
        /\ breaker[p].state = "half-open"
        /\ pc[t] = p \o "_body"
        /\ pc[u] = p \o "_call"
        /\ breaker[p].fail_counter > fail_max

\* C8: a success resets the failure count to zero and leaves the breaker
\* closed, so the breaker is open only after fail_max failures in a row:
\* while the current run of failures is shorter than fail_max the breaker is
\* closed, its counter equals the length of the run, and no call was
\* rejected.
C8_OpensOnlyOnConsecutiveFailures ==
    \A p \in Providers :
        streak[p] < fail_max =>
            /\ breaker[p].state = "closed"
            /\ breaker[p].fail_counter = streak[p]
            /\ \A t \in Threads :
                 (calls[t][p].invoked > 0 /\ pc[t] # p \o "_body")
                     => calls[t][p].executed = calls[t][p].invoked

\* A success after failures: the run is over and the breaker is closed.
C8_Witness ==
    \E t \in Threads : \E p \in Providers :
        /\ last_failure[p] # NoTime
        /\ streak[p] = 0
        /\ breaker[p] = NewBreaker
        /\ calls[t][p].accepted = 1

\* C9: when the Mailgun breaker is open, an authorised complete request is
\* still attempted on Mandrill exactly once, without contacting Mailgun, and
\* gets 204 if Mandrill succeeds, as for any other failure of the primary.
C9_OpenPrimaryFallsBack ==
    \A t \in Threads :
        (/\ Dispatched(t)
         /\ calls[t]["mailgun"].invoked > calls[t]["mailgun"].executed
         /\ pc[t] # "mailgun_body")
            => /\ calls[t]["mailgun"].network = 0
               /\ pc[t] \in {"mandrill_call", "mandrill_body", "mandrill_exit",
                           "responded"}
               /\ pc[t] # "mandrill_call" => calls[t]["mandrill"].invoked = 1
               /\ (pc[t] = "responded" /\ calls[t]["mandrill"].accepted = 1)
                     => resp[t].status = HTTP_204

C9_Witness ==
    \E t \in Threads :
        /\ Dispatched(t)
        /\ breaker["mailgun"].state = "open"
        /\ calls[t]["mailgun"].invoked = 1
        /\ calls[t]["mailgun"].executed = 0
        /\ calls[t]["mandrill"].accepted = 1
        /\ resp[t].status = HTTP_204

\* C10: a request is answered 204 only if exactly one provider call of that
\* request completed without error; no request has both providers accept.
C10_NoContentMeansOneProviderAccepted ==
    \A t \in Threads :
        /\ calls[t]["mailgun"].accepted + calls[t]["mandrill"].accepted <= 1
        /\ resp[t].status = HTTP_204 =>
              calls[t]["mailgun"].accepted + calls[t]["mandrill"].accepted = 1

C10_Witness ==
    \E t \in Threads :
        /\ resp[t].status = HTTP_204
        /\ calls[t]["mailgun"].accepted = 0
        /\ calls[t]["mandrill"].accepted = 1
        /\ calls[t]["mandrill"].network = 1

\* C11: under concurrent requests the failure counter and the state of each
\* breaker are updated atomically: no increment, reset or transition is
\* lost, so the counter equals the number of failures recorded since the
\* last success, the breaker is closed below fail_max and open (or half-open
\* during a trial call) from fail_max on.
C11_CounterUpdatesAreAtomic ==
    \A p \in Providers :
        /\ breaker[p].fail_counter = streak[p]
        /\ streak[p] < fail_max => breaker[p].state = "closed"
        /\ streak[p] >= fail_max => breaker[p].state \in {"open", "half-open"}
        /\ breaker[p].state = "open" => breaker[p].opened_at = last_failure[p]
        /\ \A t \in Threads :
             pc[t] = p \o "_exit" => pending[t].counter = breaker[p].fail_counter

\* Two concurrent requests have both failed at a provider, and the second of
\* the two failures was the one that opened its breaker.
C11_Witness ==
    \E t, u \in Threads : \E p \in Providers :
        /\ t # u
        /\ calls[t][p].executed = 1 /\ calls[t][p].accepted = 0
        /\ calls[u][p].executed = 1 /\ calls[u][p].accepted = 0
        /\ pc[t] \notin {p \o "_body", p \o "_exit"}
        /\ pc[u] \notin {p \o "_body", p \o "_exit"}
        /\ streak[p] = fail_max
        /\ breaker[p].state = "open"
        /\ breaker[p].fail_counter = fail_max

\* C12: when a request carries fallback=true the Mailgun attempt fails and
\* no network request to Mailgun is made, in every state of its breaker.
C12_ForcedFailureMakesNoRequest ==
    \A t \in Threads :
        (Dispatched(t) /\ doc[t].fallback = "true")
            => /\ calls[t]["mailgun"].network = 0
               /\ calls[t]["mailgun"].accepted = 0
               /\ pc[t] = "mailgun_exit" => pending[t].exc.type = "RuntimeError"
               /\ pc[t] = "responded" => calls[t]["mandrill"].invoked = 1

\* The forced failure of a trial call through the half-open Mailgun breaker.
C12_Witness ==
    \E t \in Threads :
        /\ Dispatched(t)
        /\ doc[t].fallback = "true"
        /\ pc[t] = "mailgun_exit"
        /\ breaker["mailgun"].state = "half-open"
        /\ calls[t]["mailgun"].executed = 1
        /\ calls[t]["mailgun"].network = 0

\* C13: a 400 Bad Request is produced only when one of the required fields
\* is absent from the body; a failure raised inside the dispatcher or a
\* provider call, whatever its type, surfaces as a server error.
C13_BadRequestOnlyForMissingField ==
    \A t \in Threads :
        /\ resp[t].status = HTTP_400 =>
              (doc[t].present # FieldSet /\ resp[t].detail \in FieldSet)
        /\ (pc[t] = "responded" /\ calls[t]["mailgun"].invoked > 0
              /\ resp[t].status # HTTP_204) => resp[t].status = Unhandled

\* C14: within one request each provider is attempted at most once, in
\* fixed order: Mandrill is attempted only after the Mailgun attempt of the
\* same request has failed, and Mailgun is not attempted after Mandrill.
C14_OneAttemptEachInOrder ==
    [][\A t \in Threads :
          /\ \A p \in Providers :
               /\ calls'[t][p].invoked <= 1
               /\ calls'[t][p].executed <= calls'[t][p].invoked
          /\ calls'[t]["mandrill"].invoked > calls[t]["mandrill"].invoked =>
               /\ calls[t]["mailgun"].invoked = 1
               /\ calls[t]["mailgun"].accepted = 0
               /\ pc[t] \notin {"mailgun_call", "mailgun_body", "mailgun_exit"}
          /\ calls'[t]["mailgun"].invoked > calls[t]["mailgun"].invoked =>
               /\ calls[t]["mailgun"].invoked = 0
               /\ calls[t]["mandrill"].invoked = 0]_vars

\* Both providers were attempted, once each, and both failed.
C14_Witness ==
    \E t \in Threads :
        /\ pc[t] = "responded"
        /\ calls[t]["mailgun"].invoked = 1
        /\ calls[t]["mailgun"].executed = 1
        /\ calls[t]["mandrill"].invoked = 1
        /\ calls[t]["mandrill"].executed = 1
        /\ calls[t]["mandrill"].accepted = 0
        /\ resp[t].status = Unhandled

\* C15: a breaker does not stay open for good: a call made to an open
\* breaker once reset_timeout has elapsed since it opened is let through to
\* the provider; when a call succeeds the breaker is closed with failure
\* count zero; and a call to a closed breaker reaches the provider.
C15_OpenBreakerRecovers ==
    [][\A t \in Threads : \A p \in Providers :
          /\ (/\ calls'[t][p].invoked > calls[t][p].invoked
              /\ breaker[p].state = "open"
              /\ now >= breaker[p].opened_at + reset_timeout)
                => /\ pc'[t] = p \o "_body"
                   /\ breaker'[p].state = "half-open"
          /\ (pc[t] = p \o "_exit" /\ pc'[t] # pc[t] /\ pending[t].exc = NoExc)
                => /\ breaker'[p] = NewBreaker
                   /\ calls'[t][p].accepted = 1
          /\ (/\ calls'[t][p].invoked > calls[t][p].invoked
              /\ breaker[p].state = "closed")
                => /\ pc'[t] = p \o "_body"
                   /\ breaker'[p] = breaker[p]]_vars

\* The trial call through a breaker that fail_max failures had opened has
\* succeeded at the provider.
C15_Witness ==
    \E t \in Threads : \E p \in Providers :
        /\ breaker[p].state = "half-open"
        /\ breaker[p].fail_counter >= fail_max
        /\ now >= last_failure[p] + reset_timeout
        /\ pc[t] = p \o "_exit"
        /\ pending[t].exc = NoExc
        /\ calls[t][p].network = 1

\* C16: a request rejected at the auth gate (404) or at the validation gate
\* (400 for an absent required field) invokes neither provider and leaves
\* both breakers as they were (state, failure count, opening time).
C16_RejectedRequestTouchesNothing ==
    [][\A t \in Threads :
          /\ (/\ pc'[t] # "idle"
              /\ \/ resp'[t].status = HTTP_404
                 \/ doc'[t].key # api_key
                 \/ doc'[t].present # FieldSet)
                => /\ pc'[t] = "responded"
                   /\ resp'[t].status \in {HTTP_404, HTTP_400}
                   /\ calls'[t] = NoCalls
          /\ (pc[t] = "idle" /\ pc'[t] = "responded")
                => /\ breaker' = breaker
                   /\ lock' = lock
                   /\ streak' = streak
                   /\ last_failure' = last_failure
          /\ (pc[t] = "responded" /\ calls[t] = NoCalls /\ pc'[t] # pc[t])
                => /\ breaker' = breaker
                   /\ lock' = lock]_vars

\* A request with an absent field is rejected while the Mailgun breaker is
\* open and the Mandrill breaker has counted failures.
C16_Witness ==
    \E t \in Threads :
        /\ pc[t] = "responded"
        /\ doc[t].key = api_key
        /\ doc[t].present # FieldSet
        /\ resp[t].status = HTTP_400
        /\ calls[t] = NoCalls
        /\ breaker["mailgun"].state = "open"
        /\ breaker["mandrill"].fail_counter > 0

\* C17: a forced failure (fallback=true) is raised inside the guarded
\* Mailgun function and counted by the Mailgun breaker like any failure:
\* fail_max forced failures in a row open the breaker, and until
\* reset_timeout has elapsed requests without fallback go to Mandrill
\* without contacting Mailgun.  (Under SpecForced every Mailgun failure is
\* a forced one.)
C17_ForcedFailuresOpenBreaker ==
    [][\A t \in Threads :
          /\ (pc[t] = "mailgun_exit" /\ pending[t].exc # NoExc)
                => /\ doc[t].fallback = "true"
                   /\ pending[t].exc.type = "RuntimeError"
          /\ (/\ doc[t].fallback = "true"
              /\ pc[t] \in {"mandrill_call", "mandrill_body", "mandrill_exit",
                            "responded"})
                => \/ /\ calls[t]["mailgun"].executed = 1
                      /\ streak["mailgun"] >= 1
                      /\ breaker["mailgun"].fail_counter = streak["mailgun"]
                   \/ /\ calls[t]["mailgun"].executed = 0
                      /\ streak["mailgun"] >= fail_max
          /\ streak["mailgun"] >= fail_max
                => breaker["mailgun"].state \in {"open", "half-open"}
          /\ (/\ doc[t].fallback # "true"
              /\ calls'[t]["mailgun"].invoked > calls[t]["mailgun"].invoked
              /\ streak["mailgun"] >= fail_max
              /\ now < last_failure["mailgun"] + reset_timeout)
                => /\ pc'[t] = "mandrill_call"
                   /\ calls'[t]["mailgun"].executed = 0
                   /\ calls'[t]["mailgun"].network = 0]_vars

\* Five forced failures in a row have opened the Mailgun breaker, and a
\* request without fallback was handed to Mandrill without contacting
\* Mailgun.
C17_Witness ==
    \E t \in Threads :
        /\ streak["mailgun"] = fail_max
        /\ breaker["mailgun"].state = "open"
        /\ now < last_failure["mailgun"] + reset_timeout
        /\ doc[t].fallback # "true"
        /\ calls[t]["mailgun"].invoked = 1
        /\ calls[t]["mailgun"].executed = 0
        /\ calls[t]["mailgun"].network = 0
        /\ calls[t]["mandrill"].network = 1
        /\ resp[t].status = HTTP_204

\* C18: the two breakers are independent: no step of a Mailgun call
\* (entry, rejection, success or failure) changes the Mandrill breaker; the
\* Mandrill breaker changes only by the Mandrill call of a request whose
\* Mailgun attempt failed; and a Mandrill call is let through whenever the
\* Mandrill breaker itself allows it, also while the Mailgun breaker is open.
C18_BreakersAreIndependent ==
    [][/\ \A t \in Threads :
            (pc[t] \in {"mailgun_call", "mailgun_body", "mailgun_exit"}
                /\ pc'[t] # pc[t])
                  => /\ breaker'["mandrill"] = breaker["mandrill"]
                     /\ lock'["mandrill"] = lock["mandrill"]
       /\ breaker'["mandrill"] # breaker["mandrill"] =>
            \E t \in Threads :
                /\ pc[t] \in {"mandrill_call", "mandrill_exit"}
                /\ pc'[t] # pc[t]
                /\ calls[t]["mailgun"].invoked = 1
                /\ calls[t]["mailgun"].accepted = 0
                /\ breaker'["mailgun"] = breaker["mailgun"]
       /\ \A t \in Threads :
            (/\ calls'[t]["mandrill"].invoked > calls[t]["mandrill"].invoked
             /\ ~still_open(breaker["mandrill"], now))
                  => /\ pc'[t] = "mandrill_body"
                     /\ breaker'["mailgun"] = breaker["mailgun"]]_vars

\* Mandrill has been contacted for a request that the open Mailgun breaker
\* rejected, and the Mandrill breaker is as new.
C18_Witness ==
    \E t \in Threads :
        /\ breaker["mailgun"].state = "open"
        /\ streak["mailgun"] >= fail_max
        /\ calls[t]["mailgun"].invoked = 1
        /\ calls[t]["mailgun"].executed = 0
        /\ pc[t] = "mandrill_exit"
        /\ calls[t]["mandrill"].network = 1
        /\ breaker["mandrill"] = NewBreaker

====
